---- MODULE Spec2Model ----
(***************************************************************************)
(* Model of two Vue components of the MindInsight UI:                      *)
(*   - the profiling helper panel (getDataOfProfileHelper and its          *)
(*     per-field dispatch, getAdvisorProposer, rankIDChanged, adviceToShow)*)
(*   - the SVG wrapper (svg-wrapper.vue), which measures itself at mount.  *)
(*                                                                         *)
(* JavaScript values are tagged records: [k |-> "undefined"], [k |->       *)
(* "null"], [k |-> "num", n |-> 3], [k |-> "arr", a |-> <<1, 2>>] and      *)
(* [k |-> "obj", p |-> [desc |-> ...]] whose record p holds the object's   *)
(* own properties.  Markup is a sequence of fragments; a fragment is a     *)
(* record [t, href, body] whose body is a sequence of tokens, a token      *)
(* being a triple of strings <<tag, text, url>>.                           *)
(***************************************************************************)
EXTENDS Integers, Sequences, FiniteSets, TLC

\* ------------------------------------------------------------------ bounds
\* HelperPanel instances that may live in the same document.
NumInst == 3
\* Largest number of fields in a response.
MaxFields == 2
\* Largest number of 'change' events recorded per instance.
MaxEmit == 2
\* Largest measured box side of the SVG wrapper, in units of 1/BoxScale px.
MaxBox == 5
\* Sub-pixel resolution of getBoundingClientRect in the model.
BoxScale == 2

Insts == 1..NumInst

\* --------------------------------------------------------------- JS values
Undefined == [k |-> "undefined"]
Null == [k |-> "null"]
Num(n) == [k |-> "num", n |-> n]
Arr(a) == [k |-> "arr", a |-> a]
Obj(p) == [k |-> "obj", p |-> p]

\* JavaScript truthiness of a value (res.data[item] as a condition).
Truthy(v) == ~(v.k \in {"undefined", "null"} \/ (v.k = "num" /\ v.n = 0))

\* Reading a property of v throws a TypeError when v is null or undefined.
Nullish(v) == v.k \in {"undefined", "null"}

\* v.hasOwnProperty(f) / whether v.f is defined, for a non-nullish v.
HasProp(v, f) == v.k = "obj" /\ f \in DOMAIN v.p

\* ----------------------------------------------------------- data() lists
tipsArrayList ==
  { "step_trace-iter_interval", "minddata_pipeline-general",
    "minddata_pipeline-dataset_op", "minddata_pipeline-generator_op",
    "minddata_pipeline-map_op", "minddata_pipeline-batch_op",
    "minddata_cpu_utilization", "minddata_device_queue_rate" }

moreParameter ==
  { "minddata_device_queue", "minddata_get_next_queue", "device_queue_warning" }

\* created(): this.helperUrl = 'url'
helperUrl == "url"

\* The fixed title getAdvisorProposer looks for.
RecommendationTitle == "Recommendations of aicpu operations optimization:"

\* Field names the model's responses use: the keys of the lookup table.
FieldNames ==
  moreParameter \cup
  { "step_trace-iter_interval", "minddata_device_queue_rate",
    "step_trace-proposer_type_label", "msadvisor-proposer_type_label",
    "msadvisor-proposer", "common-profiler_tutorial", "op-op_list" }

\* item.endsWith('type_label'), over the field names of the model.
EndsWithTypeLabel(item) ==
  item \in {"step_trace-proposer_type_label", "msadvisor-proposer_type_label"}

\* ------------------------------------------------------------------ tokens
Text(s) == <<"text", s, "">>
Span(s) == <<"span", s, "">>
Para(s) == <<"p", s, "">>

\* `${x}` of a string-valued property that may be undefined.
DescOf(d) == IF HasProp(d, "desc") THEN d.p.desc ELSE <<Text("undefined")>>

\* String.prototype.replace(pattern, replacement) with a string pattern:
\* only the first occurrence is replaced.
RECURSIVE ReplaceFirst(_, _, _)
ReplaceFirst(s, pat, rep) ==
  IF s = <<>> THEN <<>>
  ELSE IF Head(s) = pat THEN <<rep>> \o Tail(s)
  ELSE <<Head(s)>> \o ReplaceFirst(Tail(s), pat, rep)

\* ---------------------------------------------------------------- numbers
\* A queue bound as displayed: the number itself, or the string '--'.
Dash == [isNum |-> FALSE, n |-> 0, s |-> "--"]
NaN == [isNum |-> FALSE, n |-> 0, s |-> "NaN"]
Number(n) == [isNum |-> TRUE, n |-> n, s |-> ToString(n)]

\* queueStart >= 0 ? queueStart : '--'  (undefined >= 0 is false)
QueueBound(a, i) == IF i <= Len(a) /\ a[i] >= 0 THEN Number(a[i]) ELSE Dash

\* JavaScript x - y: a string that is no numeral converts to NaN.
Minus(x, y) == IF x.isNum /\ y.isNum THEN Number(x.n - y.n) ELSE NaN

\* -------------------------------------------------------------- fragments
TitleFragment(desc) == [t |-> "suggested-items-style", href |-> "", body |-> desc]
TipFragment(content) == [t |-> "helper-content-style", href |-> "", body |-> content]
LinkFragment(url, desc) == [t |-> "helper-content-link", href |-> url, body |-> desc]
PlainFragment(desc) == [t |-> "content-style", href |-> "", body |-> desc]
DetailBlock(ps) == [t |-> "advice-detail", href |-> "", body |-> ps]

\* ------------------------------------------------------ getAdvisorProposer
\* The localized ordinal list this.$t('profiling.adviceDetails').
adviceDetails == <<"detail-1", "detail-2", "detail-3">>

\* `<p>${this.$t('profiling.adviceDetails')[index]}</p>` for index 0..n-1.
DetailParas(n) ==
  [j \in 1..n |-> Para(IF j <= Len(adviceDetails) THEN adviceDetails[j] ELSE "undefined")]

\* data[item].extend.forEach(...): the detail blocks pushed, or a TypeError
\* when a matching entry has no value[0] to iterate.
RECURSIVE ExtendContents(_)
ExtendContents(ext) ==
  IF ext = <<>> THEN [thrown |-> FALSE, contents |-> <<>>]
  ELSE
    LET e == Head(ext)
        match == "extendtitle" \in DOMAIN e /\ e.extendtitle = RecommendationTitle
    IN  IF match /\ ("value" \notin DOMAIN e \/ e.value = <<>>)
        THEN [thrown |-> TRUE, contents |-> <<>>]
        ELSE
          LET rest == ExtendContents(Tail(ext))
              mine == IF match THEN <<DetailBlock(DetailParas(Len(e.value[1])))>> ELSE <<>>
          IN  [thrown |-> rest.thrown, contents |-> mine \o rest.contents]

\* The test on 'extend' inverted: the flags are set the other way round.
getAdvisorProposer_FlagsSwapped(data, item) ==
  IF ~HasProp(data, item)
  THEN [thrown |-> TRUE, setNot |-> FALSE, setOpt |-> FALSE, contents |-> <<>>]
  ELSE
    LET m == data.p[item] IN
    IF "extend" \notin DOMAIN m
    THEN [thrown |-> FALSE, setNot |-> FALSE, setOpt |-> TRUE, contents |-> <<>>]
    ELSE
      LET r == ExtendContents(m.extend)
      IN  [thrown |-> r.thrown, setNot |-> TRUE, setOpt |-> FALSE,
           contents |-> IF r.thrown THEN <<>> ELSE r.contents]

\* getAdvisorProposer(data, item): which flag it sets, what it returns and
\* whether it throws (the flag is set before a later throw).
getAdvisorProposer(data, item) ==
  IF ~HasProp(data, item)
  THEN [thrown |-> TRUE, setNot |-> FALSE, setOpt |-> FALSE, contents |-> <<>>]
  ELSE
    LET m == data.p[item] IN
    IF "extend" \notin DOMAIN m
    THEN [thrown |-> FALSE, setNot |-> TRUE, setOpt |-> FALSE, contents |-> <<>>]
    ELSE
      LET r == ExtendContents(m.extend)
      IN  [thrown |-> r.thrown, setNot |-> FALSE, setOpt |-> TRUE,
           contents |-> IF r.thrown THEN <<>> ELSE r.contents]

\* ------------------------------------------------- the forEach callback
\* Result of one call of the callback: the lookup table and the fragment
\* list after it, what it did to the advisory flags and the advisory
\* container, and whether it threw (then helper-tips was not written).
Outcome(thrown, tbl, frags) ==
  [thrown |-> thrown, tbl |-> tbl, frags |-> frags, setNot |-> FALSE,
   setOpt |-> FALSE, adviceWrite |-> FALSE, advice |-> <<>>]

\* Lines 116-118: a field outside both lists with a truthy value is written
\* into the live table this.$t('profiling').
LookupWrite(tbl, item, val) ==
  IF item \notin tipsArrayList /\ item \notin moreParameter /\ Truthy(val)
  THEN [tbl EXCEPT ![item] = val]
  ELSE tbl

\* Lines 128-144: a field of tipsArrayList.
TipBranch(tbl, frags, item, val) ==
  IF item = "minddata_device_queue_rate"
  THEN
    IF Nullish(val) THEN Outcome(TRUE, tbl, frags)
    ELSE
      LET above == HasProp(val, "empty_rate") /\ HasProp(val, "empty_warning_threshold")
                   /\ val.p.empty_rate > val.p.empty_warning_threshold
          key == IF above THEN "empty_rate" ELSE "empty_warning_threshold"
      IN  Outcome(FALSE, tbl, Append(frags, TipFragment(<<Text(item \o "." \o key)>>)))
  ELSE
    IF Nullish(tbl[item]) \/ Nullish(val) THEN Outcome(TRUE, tbl, frags)
    ELSE
      LET first == IF val.k = "arr" /\ Len(val.a) >= 1 THEN ToString(val.a[1])
                   ELSE "undefined"
          content == ReplaceFirst(DescOf(tbl[item]), Text("{n1}"), Text(first))
      IN  Outcome(FALSE, tbl, Append(frags, TipFragment(content)))

\* The four substitutions of lines 149-153 and 164-168.
QueueContent(desc, start, end) ==
  ReplaceFirst(
    ReplaceFirst(
      ReplaceFirst(
        ReplaceFirst(desc, Text("{n1}"), Span(start.s)),
        Text("{n2}"), Span(end.s)),
      Text("{n3}"), Span(Minus(end, start).s)),
    Text("{n4}"), Span(end.s))

\* Lines 145-174: minddata_device_queue and minddata_get_next_queue.
QueueBranch(tbl, frags, item, val) ==
  IF val.k # "arr" \/ Nullish(tbl[item]) THEN Outcome(TRUE, tbl, frags)
  ELSE
    LET start == QueueBound(val.a, 1)
        end == QueueBound(val.a, 2)
    IN  Outcome(FALSE, tbl,
                Append(frags, TipFragment(QueueContent(DescOf(tbl[item]), start, end))))

\* Line 175: item === 'device_queue_warning' && res.data[item].length
WarningGuard(item, val) ==
  item = "device_queue_warning" /\ val.k = "arr" /\ Len(val.a) # 0

\* Lines 176-182.
WarningBranch(tbl, frags, item) ==
  IF Nullish(tbl[item]) THEN Outcome(TRUE, tbl, frags)
  ELSE Outcome(FALSE, tbl, Append(frags, TipFragment(DescOf(tbl[item]))))

\* Lines 183-188.
ProposerBranch(tbl, frags, item, val) ==
  IF item = "msadvisor-proposer"
  THEN
    LET r == getAdvisorProposer(val, "AICPUModel")
    IN  [thrown |-> r.thrown, tbl |-> tbl, frags |-> frags, setNot |-> r.setNot,
         setOpt |-> r.setOpt, adviceWrite |-> ~r.thrown, advice |-> r.contents]
  ELSE Outcome(FALSE, tbl, frags)

\* Lines 189-218: the descriptor has an anchor list.  With one anchor the
\* description is wrapped in a link; otherwise the loop calls the undefined
\* method `relpace` in its first iteration, which throws a TypeError.
AnchorBranch(tbl, frags, item) ==
  LET d == tbl[item]
      anchorList == d.p.anchor
  IN  IF Len(anchorList) = 1
      THEN
        IF ~HasProp(d, helperUrl) THEN Outcome(TRUE, tbl, frags)
        ELSE
          LET url == IF Len(d.p.url) >= 1 THEN d.p.url[1] ELSE "undefined"
          IN  Outcome(FALSE, tbl, Append(frags, LinkFragment(url, DescOf(d))))
      ELSE
        IF Len(anchorList) > 0 THEN Outcome(TRUE, tbl, frags)
        ELSE Outcome(FALSE, tbl, Append(frags, TipFragment(DescOf(d))))

\* Lines 219-225.
DefaultBranch(tbl, frags, item) ==
  Outcome(FALSE, tbl, Append(frags, PlainFragment(DescOf(tbl[item]))))

\* Lines 115-225: one call of the forEach callback up to the helper-tips
\* write, for field `item` with value `val`.
ForEachBody(tbl0, frags, item, val) ==
  LET tbl == LookupWrite(tbl0, item, val) IN
  IF EndsWithTypeLabel(item) /\ item # "msadvisor-proposer_type_label"
  THEN
    IF Nullish(tbl[item]) THEN Outcome(TRUE, tbl, frags)
    ELSE Outcome(FALSE, tbl, Append(frags, TitleFragment(DescOf(tbl[item]))))
  ELSE IF item \in tipsArrayList THEN TipBranch(tbl, frags, item, val)
  ELSE IF item \in {"minddata_device_queue", "minddata_get_next_queue"}
  THEN QueueBranch(tbl, frags, item, val)
  ELSE IF item = "device_queue_warning" /\ Nullish(val) THEN Outcome(TRUE, tbl, frags)
  ELSE IF WarningGuard(item, val) THEN WarningBranch(tbl, frags, item)
  ELSE IF item \in {"msadvisor-proposer_type_label", "msadvisor-proposer"}
  THEN ProposerBranch(tbl, frags, item, val)
  ELSE IF Nullish(tbl[item]) THEN Outcome(TRUE, tbl, frags)
  ELSE IF HasProp(tbl[item], "anchor") THEN AnchorBranch(tbl, frags, item)
  ELSE DefaultBranch(tbl, frags, item)

\* --------------------------------------------------------------- the locale
\* Placeholders and words of the description templates.
QueueDesc == <<Text("empty "), Text("{n1}"), Text("/"), Text("{n2}"), Text(" full "),
               Text("{n3}"), Text("/"), Text("{n4}")>>

\* The localized messages this.$t('profiling') as loaded: per field name a
\* descriptor with a description template, optional anchor tokens and urls.
Locale ==
  [f \in FieldNames |->
     IF f \in {"minddata_device_queue", "minddata_get_next_queue"}
       THEN Obj([desc |-> QueueDesc])
     ELSE IF f \in tipsArrayList
       THEN Obj([desc |-> <<Text(f), Text("{n1}")>>])
     ELSE IF f = "common-profiler_tutorial"
       THEN Obj([desc |-> <<Text("tutorial")>>, anchor |-> <<"tutorial">>,
                 url |-> <<"url-1">>])
     ELSE IF f = "op-op_list"
       THEN Obj([desc |-> <<Text("operators")>>])
     ELSE Obj([desc |-> <<Text(f)>>])]

\* ------------------------------------------------------------- responses
Field(item, val) == [item |-> item, val |-> val]

\* A descriptor-shaped value with two anchors, as a response may carry it.
TwoAnchors ==
  Obj([desc |-> <<Text("see "), Text("A"), Text(" and "), Text("B")>>,
       anchor |-> <<"A", "B">>, url |-> <<"url-1", "url-2">>])

\* Values of the field msadvisor-proposer.
ProposerValues ==
  { Obj([Other |-> [extend |-> <<>>]]),
    Obj([AICPUModel |-> [name |-> "aicpu"]]),
    Obj([AICPUModel |-> [extend |-> <<>>]]),
    Obj([AICPUModel |-> [extend |-> <<[extendtitle |-> RecommendationTitle,
                                        value |-> << <<1, 2>> >>]>>]]),
    Obj([AICPUModel |-> [extend |-> <<[extendtitle |-> "Other title",
                                        value |-> << <<1>> >>],
                                      [extendtitle |-> RecommendationTitle,
                                        value |-> << <<1, 2, 3, 4>>, <<5>> >>],
                                      [value |-> << <<1>> >>],
                                      [extendtitle |-> RecommendationTitle,
                                        value |-> << <<>> >>]>>]]),
    Obj([AICPUModel |-> [extend |-> <<[extendtitle |-> RecommendationTitle]>>]]) }

\* Values of the two queue fields: [start, end], possibly short.
QueueValues ==
  {Arr(<<s, e>>) : s \in {-1, 1, 3}, e \in {-1, 1, 3}} \cup {Arr(<<>>), Arr(<<2>>)}

\* The (field, value) pairs the single-panel specification draws from.
PanelFields ==
  { Field("step_trace-proposer_type_label", Null),
    Field("msadvisor-proposer_type_label", Null),
    Field("step_trace-iter_interval", Arr(<<5>>)),
    Field("minddata_device_queue_rate",
          Obj([empty_rate |-> 3, empty_warning_threshold |-> 2])),
    Field("minddata_device_queue_rate",
          Obj([empty_rate |-> 1, empty_warning_threshold |-> 2])),
    Field("device_queue_warning", Arr(<<>>)),
    Field("device_queue_warning", Arr(<<7>>)),
    Field("common-profiler_tutorial", Null),
    Field("op-op_list", Null),
    Field("op-op_list", Arr(<<1>>)),
    Field("op-op_list", Obj([desc |-> <<Text("from response")>>])),
    Field("op-op_list", TwoAnchors) }
  \cup {Field("minddata_device_queue", v) : v \in QueueValues}
  \cup {Field("minddata_get_next_queue", v) : v \in {Arr(<<-1, 3>>), Arr(<<1, 3>>)}}
  \cup {Field("msadvisor-proposer", v) : v \in ProposerValues}

\* The pairs the specification of several panels draws from.
SharedFields ==
  { Field("op-op_list", Null),
    Field("op-op_list", Obj([desc |-> <<Text("from response")>>])),
    Field("op-op_list", TwoAnchors),
    Field("step_trace-iter_interval", Arr(<<5>>)),
    Field("msadvisor-proposer", Obj([AICPUModel |-> [name |-> "aicpu"]])) }

\* Object.keys(res.data) in order: sequences of at most n fields with
\* pairwise different names.
RECURSIVE FieldSeqs(_, _)
FieldSeqs(U, n) ==
  IF n = 0 THEN {<<>>}
  ELSE LET shorter == FieldSeqs(U, n - 1)
       IN  shorter \cup
           { Append(q, f) : q \in {r \in shorter : Len(r) = n - 1},
                            f \in U }

DistinctNames(q) == \A a, b \in 1..Len(q) : a # b => q[a].item # q[b].item

\* A response: res.data present (ok) with its fields, or absent.
NoData == [ok |-> FALSE, data |-> <<>>]
Responses(U, n) ==
  {[ok |-> TRUE, data |-> q] : q \in {r \in FieldSeqs(U, n) : DistinctNames(r)}}
  \cup {NoData}

\* The responses each specification draws from.
PanelResponses == Responses(PanelFields, MaxFields)
SmallResponses == Responses(SharedFields, MaxFields)
SharedResponses == Responses(SharedFields, 1)

\* $route.query.rankIDList
rankIDList == {0, 1}

\* ------------------------------------------------------------------ state
VARIABLES
  life,               \* per panel: "created", "mounted" or "destroyed"
  rankID,             \* per panel: data().rankID, bound to the selector
  adviceShow,         \* per panel: "none" or "block"
  adviceOptimize,     \* per panel: advice-available flag
  adviceNotOptimize,  \* per panel: no-advice flag
  emitted,            \* per panel: payloads of the 'change' events emitted
  requests,           \* per panel: params of the requests issued
  pc,                 \* per panel: "idle", "pending", "running", "done", "caught"
  res,                \* per panel: the response its then-callback received
  idx,                \* per panel: forEach iterations completed
  innerHTMLs,         \* per panel: the callback's local fragment list
  doc,                \* mounted panels in document order
  helperTips,         \* per panel: children of its #helper-tips element
  msAdvice,           \* per panel: children of its #ms-advice-content element
  profiling,          \* the live table this.$t('profiling'), shared
  svgMounted,         \* SvgFrame: mounted() has run
  box,                \* SvgFrame: wrapper's bounding box, in 1/BoxScale px
  width,              \* SvgFrame: data().width
  height,             \* SvgFrame: data().height
  svg                 \* SvgFrame: the rendered <svg>, if any

panelVars ==
  <<life, rankID, adviceShow, adviceOptimize, adviceNotOptimize, emitted, requests,
    pc, res, idx, innerHTMLs, doc, helperTips, msAdvice, profiling>>
svgVars == <<svgMounted, box, width, height, svg>>
vars == <<panelVars, svgVars>>

\* --------------------------------------------------------------- SvgFrame
\* Rounding up instead of down.
Floor_RoundsUp(x) == (x + BoxScale - 1) \div BoxScale

\* Math.floor of a non-negative length given in 1/BoxScale px.
Floor(x) == x \div BoxScale

\* The template: <svg v-if="width > 0 && height > 0" :width :height :viewBox>
SvgTemplate(w, h) ==
  IF w > 0 /\ h > 0
  THEN [present |-> TRUE, width |-> w, height |-> h, viewBox |-> <<0, 0, w, h>>]
  ELSE [present |-> FALSE, width |-> 0, height |-> 0, viewBox |-> <<0, 0, 0, 0>>]

Boxes == [w : 0..MaxBox, h : 0..MaxBox]

SvgInit ==
  /\ svgMounted = FALSE
  /\ box \in Boxes
  /\ width = 0
  /\ height = 0
  /\ svg = SvgTemplate(0, 0)

\* mounted(): measure the wrapper, publish the floored sides, re-render.
SvgMount ==
  /\ ~svgMounted
  /\ svgMounted' = TRUE
  /\ width' = Floor(box.w)
  /\ height' = Floor(box.h)
  /\ svg' = SvgTemplate(width', height')
  /\ UNCHANGED <<box, panelVars>>

\* The layout resizes the wrapper; the component installs no observer.
SvgResize ==
  /\ \E b \in Boxes : b # box /\ box' = b
  /\ UNCHANGED <<svgMounted, width, height, svg, panelVars>>

\* ------------------------------------------------------------ HelperPanel
\* document.getElementById finds the first element with the id in document
\* order, or null: 0 stands for null.
GetElementById == IF doc = <<>> THEN 0 ELSE Head(doc)

InsertAt(q, pos, x) == SubSeq(q, 1, pos - 1) \o <<x>> \o SubSeq(q, pos, Len(q))
Without(q, x) == SelectSeq(q, LAMBDA y : y # x)

\* The then-callback runs to completion: while one is between two forEach
\* iterations no other handler runs.
Running == \E j \in Insts : pc[j] = "running"

PanelInit(I) ==
  /\ life = [i \in Insts |-> "created"]
  /\ rankID \in [Insts -> rankIDList]
  /\ \A i \in Insts \ I : rankID[i] = 0
  /\ adviceShow = [i \in Insts |-> "none"]
  /\ adviceOptimize = [i \in Insts |-> FALSE]
  /\ adviceNotOptimize = [i \in Insts |-> FALSE]
  /\ emitted = [i \in Insts |-> <<>>]
  /\ requests = [i \in Insts |-> <<>>]
  /\ pc = [i \in Insts |-> "idle"]
  /\ res = [i \in Insts |-> NoData]
  /\ idx = [i \in Insts |-> 0]
  /\ innerHTMLs = [i \in Insts |-> <<>>]
  /\ doc = <<>>
  /\ helperTips = [i \in Insts |-> <<>>]
  /\ msAdvice = [i \in Insts |-> <<>>]
  /\ profiling = Locale

\* mounted(): the template is inserted into the document and
\* getDataOfProfileHelper issues the request with device_id = this.rankID.
Mount(i) ==
  /\ ~Running
  /\ life[i] = "created"
  /\ life' = [life EXCEPT ![i] = "mounted"]
  /\ \E pos \in 1..(Len(doc) + 1) : doc' = InsertAt(doc, pos, i)
  /\ requests' = [requests EXCEPT ![i] = Append(@, [device_id |-> rankID[i]])]
  /\ pc' = [pc EXCEPT ![i] = "pending"]
  /\ UNCHANGED <<rankID, adviceShow, adviceOptimize, adviceNotOptimize, emitted, res,
                 idx, innerHTMLs, helperTips, msAdvice, profiling, svgVars>>

\* The component is torn down: its elements leave the document.  A pending
\* request is not cancelled.
Destroy(i) ==
  /\ ~Running
  /\ life[i] = "mounted"
  /\ life' = [life EXCEPT ![i] = "destroyed"]
  /\ doc' = Without(doc, i)
  /\ helperTips' = [helperTips EXCEPT ![i] = <<>>]
  /\ msAdvice' = [msAdvice EXCEPT ![i] = <<>>]
  /\ UNCHANGED <<rankID, adviceShow, adviceOptimize, adviceNotOptimize, emitted,
                 requests, pc, res, idx, innerHTMLs, profiling, svgVars>>

\* A handler that also fetches again for the new rank.
rankIDChanged_Refetches(i, r) ==
  /\ ~Running
  /\ life[i] = "mounted"
  /\ r # rankID[i]
  /\ Len(emitted[i]) < MaxEmit
  /\ rankID' = [rankID EXCEPT ![i] = r]
  /\ emitted' = [emitted EXCEPT ![i] = Append(@, rankID'[i])]
  /\ requests' = [requests EXCEPT ![i] = Append(@, [device_id |-> rankID'[i]])]
  /\ UNCHANGED <<life, adviceShow, adviceOptimize, adviceNotOptimize, pc,
                 res, idx, innerHTMLs, doc, helperTips, msAdvice, profiling, svgVars>>

\* The user picks another rank: v-model stores it, then rankIDChanged emits.
rankIDChanged(i, r) ==
  /\ ~Running
  /\ life[i] = "mounted"
  /\ r # rankID[i]
  /\ Len(emitted[i]) < MaxEmit
  /\ rankID' = [rankID EXCEPT ![i] = r]
  /\ emitted' = [emitted EXCEPT ![i] = Append(@, rankID'[i])]
  /\ UNCHANGED <<life, adviceShow, adviceOptimize, adviceNotOptimize, requests, pc,
                 res, idx, innerHTMLs, doc, helperTips, msAdvice, profiling, svgVars>>

\* Click on the advice title.
adviceToShow(i) ==
  /\ ~Running
  /\ life[i] = "mounted"
  /\ adviceShow' = [adviceShow EXCEPT ![i] = IF @ = "block" THEN "none" ELSE "block"]
  /\ UNCHANGED <<life, rankID, adviceOptimize, adviceNotOptimize, emitted, requests,
                 pc, res, idx, innerHTMLs, doc, helperTips, msAdvice, profiling,
                 svgVars>>

\* adviceChange(): whether #ms-advice-content is shown.
adviceChange(i) == adviceShow[i] = "block"

\* The request is rejected: .catch(() => {}).
RequestRejected(i) ==
  /\ ~Running
  /\ pc[i] = "pending"
  /\ pc' = [pc EXCEPT ![i] = "caught"]
  /\ UNCHANGED <<life, rankID, adviceShow, adviceOptimize, adviceNotOptimize, emitted,
                 requests, res, idx, innerHTMLs, doc, helperTips, msAdvice, profiling,
                 svgVars>>

\* The request resolves with one of the responses of R: the then-callback
\* starts; without res.data, or with no keys, it returns at once.
ResponseArrives(i, R) ==
  /\ ~Running
  /\ pc[i] = "pending"
  /\ \E r \in R :
       /\ res' = [res EXCEPT ![i] = r]
       /\ pc' = [pc EXCEPT ![i] = IF r.ok /\ Len(r.data) > 0 THEN "running" ELSE "done"]
  /\ UNCHANGED <<life, rankID, adviceShow, adviceOptimize, adviceNotOptimize, emitted,
                 requests, idx, innerHTMLs, doc, helperTips, msAdvice, profiling,
                 svgVars>>

\* One iteration of Object.keys(res.data).forEach: the dispatch, then the
\* write of the fragment list into #helper-tips.  A TypeError leaves the
\* forEach and the then-callback and is swallowed by the empty catch.
ForEachCallback(i) ==
  /\ pc[i] = "running"
  /\ LET f == res[i].data[idx[i] + 1]
         o == ForEachBody(profiling, innerHTMLs[i], f.item, f.val)
         target == GetElementById
     IN  /\ profiling' = o.tbl
         /\ innerHTMLs' = [innerHTMLs EXCEPT ![i] = o.frags]
         /\ adviceOptimize' = [adviceOptimize EXCEPT ![i] = @ \/ o.setOpt]
         /\ adviceNotOptimize' = [adviceNotOptimize EXCEPT ![i] = @ \/ o.setNot]
         /\ msAdvice' = IF o.adviceWrite /\ target # 0
                        THEN [msAdvice EXCEPT ![target] = o.advice]
                        ELSE msAdvice
         /\ helperTips' = IF ~o.thrown /\ target # 0
                          THEN [helperTips EXCEPT ![target] = o.frags]
                          ELSE helperTips
         /\ idx' = [idx EXCEPT ![i] = IF o.thrown THEN @ ELSE @ + 1]
         /\ pc' = [pc EXCEPT ![i] = IF o.thrown THEN "caught"
                                    ELSE IF idx[i] + 1 = Len(res[i].data) THEN "done"
                                    ELSE "running"]
  /\ UNCHANGED <<life, rankID, adviceShow, emitted, requests, res, doc, svgVars>>

\* --------------------------------------------------------- specifications
\* One panel with its user interface.
Init == PanelInit({1}) /\ SvgInit /\ box = [w |-> 0, h |-> 0]

Next ==
  \/ Mount(1)
  \/ Destroy(1)
  \/ \E r \in rankIDList : rankIDChanged(1, r)
  \/ adviceToShow(1)
  \/ RequestRejected(1)
  \/ ResponseArrives(1, SmallResponses)
  \/ ForEachCallback(1)

Spec == Init /\ [][Next]_vars

\* One panel, every kind of field.
NextFields ==
  \/ Mount(1)
  \/ Destroy(1)
  \/ RequestRejected(1)
  \/ ResponseArrives(1, PanelResponses)
  \/ ForEachCallback(1)

SpecFields == Init /\ [][NextFields]_vars

\* Several panels sharing the document and the lookup table.
NextShared ==
  \E i \in Insts :
    \/ Mount(i)
    \/ Destroy(i)
    \/ RequestRejected(i)
    \/ ResponseArrives(i, SharedResponses)
    \/ ForEachCallback(i)

SpecShared == Init /\ [][NextShared]_vars

\* The SVG wrapper alone.
InitSvg == PanelInit({}) /\ SvgInit

NextSvg == SvgMount \/ SvgResize

SpecSvg == InitSvg /\ [][NextSvg]_vars

\* ------------------------------------------------------------------ claims
\* The field the running callback of panel i processes next.
NextField(i) == res[i].data[idx[i] + 1]

QueueItems == {"minddata_device_queue", "minddata_get_next_queue"}

\* C1: processing the field device_queue_warning with an empty list as value
\* appends no fragment to the main fragment list.
C1_EmptyWarningAppendsNothing ==
  [][\A i \in Insts :
       (/\ pc[i] = "running"
        /\ NextField(i).item = "device_queue_warning"
        /\ NextField(i).val = Arr(<<>>))
       => innerHTMLs'[i] = innerHTMLs[i]]_vars

\* C2: once the request or the processing of its response has failed, both
\* containers are empty, both advisory flags are false and exactly the one
\* request of mount has been issued.
C2_FailureLeavesPreFetchState ==
  \A i \in Insts :
    pc[i] = "caught" =>
      /\ helperTips[i] = <<>>
      /\ msAdvice[i] = <<>>
      /\ ~adviceOptimize[i]
      /\ ~adviceNotOptimize[i]
      /\ Len(requests[i]) = 1

\* C3: helper-tips is written once, after the last field: while the callback
\* of a mounted panel is between fields the container still holds its prior
\* (empty) content, and when the callback is done it holds the full list.
C3_SingleWriteAfterLastField ==
  \A i \in Insts :
    life[i] = "mounted" =>
      /\ pc[i] = "running" => helperTips[i] = <<>>
      /\ (pc[i] = "done" /\ res[i].ok) => helperTips[i] = innerHTMLs[i]

\* Position of a placeholder in the queue template.
PlaceholderPos(ph) == CHOOSE j \in 1..Len(QueueDesc) : QueueDesc[j] = Text(ph)

\* C4: the last completed field being a queue field with value [start, end],
\* its fragment shows the dash for {n3} when start or end is negative or
\* missing, and start, end, end - start, end when both are >= 0.
C4_QueueDeltaNeverArithmeticOnDash ==
  \A i \in Insts :
    (idx[i] >= 1 /\ res[i].data[idx[i]].item \in QueueItems) =>
      LET a == res[i].data[idx[i]].val.a
          body == innerHTMLs[i][Len(innerHTMLs[i])].body
      IN  IF Len(a) = 2 /\ a[1] >= 0 /\ a[2] >= 0
          THEN /\ body[PlaceholderPos("{n1}")] = Span(ToString(a[1]))
               /\ body[PlaceholderPos("{n2}")] = Span(ToString(a[2]))
               /\ body[PlaceholderPos("{n3}")] = Span(ToString(a[2] - a[1]))
               /\ body[PlaceholderPos("{n4}")] = Span(ToString(a[2]))
          ELSE body[PlaceholderPos("{n3}")] = Span("--")

\* The extend entries of a proposer model that carry the fixed title.
Recommendations(m) ==
  SelectSeq(m.extend,
            LAMBDA e : "extendtitle" \in DOMAIN e /\ e.extendtitle = RecommendationTitle)

C7_RankChangeEmitsAndNeverRefetches ==
  /\ [](\A i \in Insts : Len(requests[i]) = IF life[i] = "created" THEN 0 ELSE 1)
  /\ [][\A i \in Insts :
          /\ rankID'[i] # rankID[i] =>
               /\ emitted'[i] = Append(emitted[i], rankID'[i])
               /\ UNCHANGED <<requests, pc, res, innerHTMLs, helperTips, msAdvice,
                              adviceOptimize, adviceNotOptimize>>
          /\ emitted'[i] # emitted[i] => rankID'[i] # rankID[i]
          /\ adviceShow'[i] # adviceShow[i] =>
               UNCHANGED <<requests, pc, res, innerHTMLs, helperTips, msAdvice,
                           adviceOptimize, adviceNotOptimize>>
          /\ requests'[i] # requests[i] =>
               /\ life[i] = "created"
               /\ life'[i] = "mounted"
               /\ requests'[i] = <<[device_id |-> rankID[i]]>>]_vars

\* Witness of C7: after two rank changes and a toggle the panel has rendered
\* its response and still has issued the single request of mount, which
\* carries another rank id than the one now selected.
C7_Witness ==
  /\ Len(emitted[1]) = 2
  /\ adviceShow[1] = "block"
  /\ pc[1] = "done"
  /\ helperTips[1] # <<>>
  /\ Len(requests[1]) = 1
  /\ emitted[1][1] # requests[1][1].device_id
  /\ emitted[1][2] = rankID[1]

\* A field of the anchor branch: none of the special fields, and its
\* descriptor (after the lookup write) has an anchor list.
ReachesAnchorBranch(f) ==
  /\ ~EndsWithTypeLabel(f.item)
  /\ f.item \notin tipsArrayList \cup moreParameter \cup {"msadvisor-proposer"}
  /\ HasProp(LookupWrite(profiling, f.item, f.val)[f.item], "anchor")

\* C8: a field of the anchor branch emits exactly one fragment and processing
\* continues; with exactly one anchor the fragment wraps the description in a
\* link to the first configured url.
C8_AnchorBranchEmitsOneFragment ==
  [][\A i \in Insts :
       (pc[i] = "running" /\ ReachesAnchorBranch(NextField(i))) =>
         LET d == LookupWrite(profiling, NextField(i).item, NextField(i).val)[NextField(i).item]
         IN  /\ pc'[i] # "caught"
             /\ Len(innerHTMLs'[i]) = Len(innerHTMLs[i]) + 1
             /\ Len(d.p.anchor) = 1 =>
                  innerHTMLs'[i][Len(innerHTMLs'[i])] = LinkFragment(d.p.url[1], d.p.desc)]_vars

\* C9: two finished runs over the same response have equal fragment lists.
C9_FragmentsDependOnResponseOnly ==
  \A i, j \in Insts :
    (/\ pc[i] \in {"done", "caught"}
     /\ pc[j] \in {"done", "caught"}
     /\ res[i].ok
     /\ res[i] = res[j])
    => innerHTMLs[i] = innerHTMLs[j]

\* C10: a step of panel i's callback writes no container when i has been
\* torn down, and never a container of another panel.
C10_ResponseWritesOwnContainersOnly ==
  [][\A i \in Insts :
       pc[i] = "running" =>
         /\ life[i] = "destroyed" => (helperTips' = helperTips /\ msAdvice' = msAdvice)
         /\ \A j \in Insts \ {i} :
              helperTips'[j] = helperTips[j] /\ msAdvice'[j] = msAdvice[j]]_vars

====
